---------------------------- MODULE Spec2Model ----------------------------
(***************************************************************************)
(* Model of src/Python/RawDFFParser.py: the chunk locator                  *)
(* (find_chunk_positions), the mesh-split header parser                    *)
(* (parse_binmesh_plg), the PS2 native geometry decoder                    *)
(* (parse_native_data_plg) and its triangle-strip reconstruction.          *)
(*                                                                         *)
(* The file is a sequence of bytes (buf) read through one cursor (pos).    *)
(* Every read follows the BR helper: f.read(n) returns what is left of the *)
(* file, struct.unpack raises when that is shorter than n.  A raised       *)
(* exception that no handler of the function catches ends the call with    *)
(* pc = "raised" and err naming the exception.                             *)
(***************************************************************************)
EXTENDS Integers, Sequences, FiniteSets, TLC

VARIABLES
    buf,                 \* the file's bytes (f); never written
    pos,                 \* the cursor (f.tell())
    offset,              \* the parsers' parameter offset
    pc,                  \* position of the running function
    err,                 \* which exception ended the call ("none" while none)
    target_id,           \* find_chunk_positions: the identifier looked for
    start,               \* find_chunk_positions: local start
    matches,             \* find_chunk_positions: local matches
    iSectionSize,        \* parse_binmesh_plg: local iSectionSize
    iMaterialSplitCount, \* binmesh["iMaterialSplitCount"]
    binMeshes,           \* binmesh["binMeshes"]
    idxBroke,            \* parse_binmesh_plg: splits whose index read hit `except: break`
    uiPlatform,          \* parse_native_data_plg: local uiPlatform (-1 before it is read)
    split_idx,           \* loop variable of both parsers' split loops
    lSectionStart,       \* parse_native_data_plg locals
    lDMASectionEnd,
    lSectionEnd,
    lDataPosition,       \* data position of the last decoded vertex block (-1: none)
    bReachedEnd,
    ms,                  \* the material split under construction
    material_splits,     \* the list parse_native_data_plg returns
    entryPos,            \* cursor at the start of the last DMA loop iteration
    iterations,          \* completed DMA loop iterations of the current split
    loopExit             \* how the DMA loop of the last finished split ended

vars == <<buf, pos, offset, pc, err, target_id, start, matches, iSectionSize,
          iMaterialSplitCount, binMeshes, idxBroke, uiPlatform, split_idx,
          lSectionStart, lDMASectionEnd, lSectionEnd, lDataPosition,
          bReachedEnd, ms, material_splits, entryPos, iterations, loopExit>>

locVars == <<target_id, start, matches>>
bmVars  == <<iSectionSize, idxBroke>>
hdrVars == <<iMaterialSplitCount, binMeshes>>
ndVars  == <<uiPlatform, lSectionStart, lDMASectionEnd, lSectionEnd,
             lDataPosition, bReachedEnd, ms, material_splits, entryPos,
             iterations, loopExit>>

-----------------------------------------------------------------------------
(* Bounds of the enumerated inputs.                                        *)

MaxBufLen == 8      \* locator: longest buffer
MaxSplits == 2      \* both parsers: most material splits in a header
MaxIndexCount == 2  \* mesh-split header: largest iIndexCount
MaxVertexCount == 4 \* native decoder: largest iIndexCount of a split
MaxVerts == 5       \* strip reconstruction: longest vertex sequence

-----------------------------------------------------------------------------
(* Program constants.                                                      *)

BINMESH_PLG_ID == 1294              \* 0x50E
NATIVE_DATA_PLG_ID == 1296          \* 0x510
STRUCT_ID == 1
DMATAG_VERTEX_4_INT16 == 1828749312 \* 0x6D008000
PLATFORM_PS2 == 4                   \* 0x4, Playstation2ClumpNative
DMA_ID_VERTEX == 48                 \* 0x30
DMA_ID_END == 16                    \* 0x10
EMPTY_SECTION_SIZE == 12
EMPTY_STRUCT_SIZE == 4

-----------------------------------------------------------------------------
(* Bytes and the BR reader.                                                *)

Min(a, b) == IF a < b THEN a ELSE b
Max(a, b) == IF a > b THEN a ELSE b

\* struct.pack("<i", v): four bytes, least significant first, two's complement.
LE32(v) ==
    LET w == IF v >= 0 THEN v ELSE (v + 2147483647) + 1
    IN  << w % 256, (w \div 256) % 256, (w \div 65536) % 256,
           (w \div 16777216) + (IF v < 0 THEN 128 ELSE 0) >>

\* f.read(n) at cursor p returns n bytes.
Avail(p, n) == p + n <= Len(buf)

\* Cursor after f.read(n) at p: a short read stops at the end of the file.
AfterRead(p, n) == IF p >= Len(buf) THEN p ELSE Min(p + n, Len(buf))

\* struct.unpack("<i", ...) of the four bytes at offset p.
I32At(p) ==
    LET low == buf[p + 1] + 256 * buf[p + 2] + 65536 * buf[p + 3]
        top == buf[p + 4]
    IN  IF top >= 128 THEN low + (top - 256) * 16777216
        ELSE low + top * 16777216

\* struct.unpack("<I", ...) of the four bytes at offset p (inputs keep the
\* top byte below 0x80, so that the value is a TLC integer).
U32At(p) ==
    buf[p + 1] + 256 * buf[p + 2] + 65536 * buf[p + 3] + 16777216 * buf[p + 4]

\* struct.unpack("<h", ...) of the two bytes at offset p.
I16At(p) ==
    LET u == buf[p + 1] + 256 * buf[p + 2]
    IN  IF u >= 32768 THEN u - 65536 ELSE u

\* struct.unpack("B", ...) of the byte at offset p.
U8At(p) == buf[p + 1]

-----------------------------------------------------------------------------
(* find_chunk_positions                                                    *)

Pattern == LE32(target_id)

MatchAt(k) ==
    /\ k + 4 <= Len(buf)
    /\ \A j \in 1..4 : buf[k + j] = Pattern[j]

\* chunk.find(pattern, from): the lowest match offset >= from, or -1.
Find(from) ==
    LET hits == {k \in from..(Len(buf) - 4) : MatchAt(k)}
    IN  IF hits = {} THEN -1
        ELSE CHOOSE k \in hits : \A h \in hits : k <= h

\* An overlapping scan: the search resumes one byte after a match.
NextStartOverlapping(idx) == idx + 1

\* start = idx + 4
NextStart(idx) == idx + 4

\* One turn of the while loop that finds a match.
FindNext ==
    /\ pc = "find"
    /\ Find(start) # -1
    /\ matches' = Append(matches, Find(start))
    /\ start' = NextStart(Find(start))
    /\ UNCHANGED <<buf, pos, offset, pc, err, target_id, bmVars, hdrVars, split_idx, ndVars>>

\* The turn that finds nothing: break, return matches.
FindDone ==
    /\ pc = "find"
    /\ Find(start) = -1
    /\ pc' = "done"
    /\ UNCHANGED <<buf, pos, offset, err, locVars, bmVars, hdrVars, split_idx, ndVars>>

LocatorBytes == {0, 5, 14}
TargetIds == {BINMESH_PLG_ID, 0, 917518, 234881038}
    \* 0x50E; 00 00 00 00; 0E 00 0E 00; 0E 00 00 0E

NoSplit == [iMaterialIndex |-> 0, Vertices |-> <<>>,
            HasVertexData |-> FALSE, Triangles |-> <<>>]

IdleLocator == target_id = 0 /\ start = 0 /\ matches = <<>>
IdleBinMesh == iSectionSize = 0 /\ idxBroke = {}
IdleHeader  == iMaterialSplitCount = 0 /\ binMeshes = <<>>
IdleNative  ==
    /\ uiPlatform = -1 /\ lSectionStart = 0 /\ lDMASectionEnd = 0
    /\ lSectionEnd = 0 /\ lDataPosition = -1 /\ bReachedEnd = FALSE
    /\ ms = NoSplit /\ material_splits = <<>> /\ entryPos = 0
    /\ iterations = 0 /\ loopExit = "none"

InitLocator ==
    /\ \E n \in 0..MaxBufLen : buf \in [1..n -> LocatorBytes]
    /\ target_id \in TargetIds
    /\ start = 0 /\ matches = <<>>
    /\ pos = 0 /\ offset = 0 /\ pc = "find" /\ err = "none" /\ split_idx = 0
    /\ IdleBinMesh /\ IdleHeader /\ IdleNative

NextLocator == FindNext \/ FindDone

SpecLocator == InitLocator /\ [][NextLocator]_vars

\* All offsets where the identifier's byte pattern occurs in the buffer.
Occurrences == {k \in 0..(Len(buf) - 4) : MatchAt(k)}

NoOverlap == \A a, b \in Occurrences : a < b => b - a >= 4

MatchSet == {matches[j] : j \in 1..Len(matches)}

\* C7: the list find_chunk_positions builds is strictly ascending, holds only
\* offsets where the four pattern bytes occur, any two of its offsets are at
\* least 4 apart, and on return it is the set of all occurrences whenever
\* these do not overlap (so it is empty when there is none).
C7_LocatorResult ==
    /\ \A j \in 1..Len(matches) : MatchAt(matches[j])
    /\ \A j \in 1..(Len(matches) - 1) : matches[j + 1] - matches[j] >= 4
    /\ \A i, j \in 1..Len(matches) : i < j => matches[i] < matches[j]
    /\ (pc = "done" /\ NoOverlap) => MatchSet = Occurrences
    /\ (pc = "done" /\ Occurrences = {}) => matches = <<>>

\* A finished scan that found two occurrences and skipped an overlapping one.
C7_Witness ==
    /\ pc = "done" /\ target_id # 0 /\ Len(matches) = 2
    /\ Cardinality(Occurrences) = 3

\* A finished scan of a buffer with two occurrences that do not overlap.
C7_WitnessAll ==
    /\ pc = "done" /\ NoOverlap /\ Cardinality(Occurrences) = 2
    /\ Len(matches) = 2

-----------------------------------------------------------------------------
(* parse_binmesh_plg                                                       *)
(* A binMeshes entry is [iIndexCount, iMaterialIndex, HasIndices,          *)
(* VertexIndices]: HasIndices is FALSE where the Python entry holds        *)
(* "VertexIndices": None.                                                  *)

\* A heuristic that reads index lists only when the section is larger.
HasExplicitIndicesIfLarger(size, count) == size > 12 + (8 * count)

\* `if iSectionSize != (12 + (8 * iMaterialSplitCount))`
HasExplicitIndices(size, count) == size # 12 + (8 * count)

\* The inner loop: up to n read_i32 from offset p, stopped by the first
\* read that raises.
RECURSIVE ReadIndices(_, _)
ReadIndices(p, n) ==
    IF n <= 0 \/ ~Avail(p, 4) THEN <<>>
    ELSE <<I32At(p)>> \o ReadIndices(p + 4, n - 1)

\* seek(offset), the three header reads, the size test, the three field reads.
BinMeshHeader ==
    /\ pc = "bm_header"
    /\ IF ~Avail(offset, 12)
       THEN /\ pc' = "raised" /\ err' = "struct.error"
            /\ pos' = AfterRead(offset, 12)
            /\ UNCHANGED <<iSectionSize, iMaterialSplitCount>>
       ELSE IF I32At(offset + 4) = EMPTY_SECTION_SIZE
       THEN /\ pc' = "done" /\ pos' = offset + 12
            /\ iSectionSize' = EMPTY_SECTION_SIZE
            /\ UNCHANGED <<err, iMaterialSplitCount>>
       ELSE IF ~Avail(offset + 12, 12)
       THEN /\ pc' = "raised" /\ err' = "struct.error"
            /\ pos' = AfterRead(offset + 12, 12)
            /\ iSectionSize' = I32At(offset + 4)
            /\ UNCHANGED iMaterialSplitCount
       ELSE /\ pc' = "bm_split" /\ pos' = offset + 24
            /\ iSectionSize' = I32At(offset + 4)
            /\ iMaterialSplitCount' = I32At(offset + 16)
            /\ UNCHANGED err
    /\ UNCHANGED <<buf, offset, locVars, binMeshes, idxBroke, split_idx, ndVars>>

\* One turn of `for i in range(iMaterialSplitCount)`.
BinMeshSplit ==
    /\ pc = "bm_split"
    /\ split_idx < iMaterialSplitCount
    /\ IF ~Avail(pos, 8)
       THEN /\ pc' = "raised" /\ err' = "struct.error"
            /\ pos' = AfterRead(pos, 8)
            /\ UNCHANGED <<binMeshes, idxBroke, split_idx>>
       ELSE LET iIndexCount == I32At(pos)
                explicit == HasExplicitIndices(iSectionSize, iMaterialSplitCount)
                idxs == IF explicit THEN ReadIndices(pos + 8, iIndexCount) ELSE <<>>
                broke == explicit /\ Len(idxs) < iIndexCount
            IN  /\ binMeshes' = Append(binMeshes,
                      [iIndexCount |-> iIndexCount,
                       iMaterialIndex |-> I32At(pos + 4),
                       HasIndices |-> explicit,
                       VertexIndices |-> idxs])
                /\ pos' = IF broke THEN AfterRead(pos + 8 + 4 * Len(idxs), 4)
                          ELSE pos + 8 + 4 * Len(idxs)
                /\ idxBroke' = IF broke THEN idxBroke \cup {split_idx} ELSE idxBroke
                /\ split_idx' = split_idx + 1
                /\ UNCHANGED <<pc, err>>
    /\ UNCHANGED <<buf, offset, locVars, iSectionSize, iMaterialSplitCount, ndVars>>

\* The loop is over: return the header.
BinMeshReturn ==
    /\ pc = "bm_split"
    /\ split_idx >= iMaterialSplitCount
    /\ pc' = "done"
    /\ UNCHANGED <<buf, pos, offset, err, locVars, bmVars, hdrVars, split_idx, ndVars>>

\* Input files: a mesh-split chunk at `off`, cut to any length.
RECURSIVE Concat(_)
Concat(ss) == IF ss = <<>> THEN <<>> ELSE Head(ss) \o Concat(Tail(ss))

Zeros(n) == [j \in 1..n |-> 0]

Cut(bytes, n) == SubSeq(bytes, 1, n)

IndexValue(k, j) == 10 * k + j

BinMeshSplitBytes(k, ic, withIdx) ==
    LE32(ic) \o LE32(7 + k) \o
    (IF withIdx THEN Concat([j \in 1..Max(ic, 0) |-> LE32(IndexValue(k, j))])
     ELSE <<>>)

BinMeshBytes(off, size, count, ics, withIdx) ==
    Zeros(off) \o LE32(BINMESH_PLG_ID) \o LE32(size) \o LE32(0) \o
    LE32(1) \o LE32(count) \o LE32(0) \o
    Concat([k \in 1..Len(ics) |-> BinMeshSplitBytes(k, ics[k], withIdx)])

SumMax0(ics) == LET RECURSIVE S(_)
                    S(q) == IF q = <<>> THEN 0 ELSE Max(Head(q), 0) + S(Tail(q))
                IN  S(ics)

IndexCounts == -1..MaxIndexCount
SplitCounts == -1..MaxSplits
Offsets == {0, 4}

SectionSizes(count, ics) ==
    {EMPTY_SECTION_SIZE, 20, 12 + 8 * count,
     12 + 8 * count + 4 * SumMax0(ics), 40}

InitBinMesh ==
    /\ \E off \in Offsets, count \in SplitCounts, withIdx \in BOOLEAN :
         \E ics \in [1..Max(count, 0) -> IndexCounts] :
           \E size \in SectionSizes(count, ics) :
             LET full == BinMeshBytes(off, size, count, ics, withIdx)
             IN  \E n \in 0..Len(full) :
                   /\ buf = Cut(full, n)
                   /\ offset = off
    /\ pos = 0 /\ pc = "bm_header" /\ err = "none" /\ split_idx = 0
    /\ IdleLocator /\ IdleBinMesh /\ IdleHeader /\ IdleNative

NextBinMesh == BinMeshHeader \/ BinMeshSplit \/ BinMeshReturn

SpecBinMesh == InitBinMesh /\ [][NextBinMesh]_vars

\* Offset of the fields of binMeshes[k] in a sequential layout where each
\* split's index list follows its two fields.
RECURSIVE SplitFieldsAt(_)
SplitFieldsAt(k) ==
    IF k = 1 THEN offset + 24
    ELSE SplitFieldsAt(k - 1) + 8 + 4 * Len(binMeshes[k - 1].VertexIndices)

\* The indices of entry e are the int32 values that follow its two fields.
IndicesInPlace(k) ==
    LET e == binMeshes[k]
        p == SplitFieldsAt(k)
    IN  /\ e.iIndexCount = I32At(p)
        /\ e.iMaterialIndex = I32At(p + 4)
        /\ \A j \in 1..Len(e.VertexIndices) :
              e.VertexIndices[j] = I32At(p + 8 + 4 * (j - 1))

\* C2: when the buffer ends inside the explicit index list of any split
\* (first, middle or last), the read stops silently, the split keeps the
\* indices read so far, and the parse still returns a header: it never ends
\* in a raised exception.
C2_TruncatedIndexListReturns ==
    /\ \A k \in idxBroke :
          /\ binMeshes[k + 1].HasIndices
          /\ IndicesInPlace(k + 1)
          /\ SplitFieldsAt(k + 1) + 8 + 4 * Len(binMeshes[k + 1].VertexIndices) + 4
               > Len(buf)
    /\ idxBroke # {} => pc # "raised"

-----------------------------------------------------------------------------
(* Strip reconstruction (the tail of parse_native_data_plg).               *)
(* A vertex is <<x, y, z>>, each coordinate the int16 read from the file,  *)
(* that is the Vector coordinate in units of SCALE = 1/128: the product    *)
(* x * SCALE is exact, so two Vector coordinates are equal exactly when    *)
(* the int16 values are.  Python index i is Vertices[i + 1] here; the      *)
(* triangle list holds Python indices.                                     *)

\* The duplicate test of two vertices: all three coordinates equal.
SameVertex(a, b) == a[1] = b[1] /\ a[2] = b[2] /\ a[3] = b[3]

\* The `continue` condition for Python index i.
Degenerate(V, i) ==
    \/ SameVertex(V[i + 1], V[i])
    \/ SameVertex(V[i + 1], V[i - 1])
    \/ SameVertex(V[i], V[i - 1])

\* A reconstruction that counts vertices from 1.
StripTripleOneBased(i) ==
    IF i % 2 = 0 THEN <<i + 1, i - 1, i>> ELSE <<i, i - 1, i + 1>>

\* A reconstruction that does not alternate the winding.
StripTripleNoAlternation(i) == <<i, i - 2, i - 1>>

\* The three indices tris.extend adds for Python index i.
StripTriple(i) ==
    IF i % 2 = 0 THEN <<i, i - 2, i - 1>> ELSE <<i - 1, i - 2, i>>

\* for i in range(from, vc): ...
RECURSIVE StripFrom(_, _)
StripFrom(V, i) ==
    IF i >= Len(V) THEN <<>>
    ELSE (IF Degenerate(V, i) THEN <<>> ELSE StripTriple(i)) \o StripFrom(V, i + 1)

ReconstructTriangles(V) == StripFrom(V, 2)

\* `if ms.get("HasVertexData", False) and ms["Vertices"] is not None: ...`
Reconstructed(m) ==
    IF m.HasVertexData
    THEN [m EXCEPT !.Triangles = ReconstructTriangles(m.Vertices)]
    ELSE m

StripReconstruct ==
    /\ pc = "strip"
    /\ ms' = Reconstructed(ms)
    /\ pc' = "done"
    /\ UNCHANGED <<buf, pos, offset, err, locVars, bmVars, hdrVars, split_idx,
                   uiPlatform, lSectionStart, lDMASectionEnd, lSectionEnd,
                   lDataPosition, bReachedEnd, material_splits, entryPos,
                   iterations, loopExit>>

StripVertices == { <<0, 0, 0>>, <<1, 0, 0>>, <<0, 1, 0>>, <<0, 0, 1>>, <<-1, 0, 1>> }

InitStrip ==
    /\ \E n \in 0..MaxVerts : \E V \in [1..n -> StripVertices] :
          \E has \in BOOLEAN :
             ms = [NoSplit EXCEPT !.Vertices = V, !.HasVertexData = has]
    /\ buf = <<>> /\ pos = 0 /\ offset = 0 /\ pc = "strip" /\ err = "none" /\ split_idx = 0
    /\ IdleLocator /\ IdleBinMesh /\ IdleHeader
    /\ uiPlatform = -1 /\ lSectionStart = 0 /\ lDMASectionEnd = 0
    /\ lSectionEnd = 0 /\ lDataPosition = -1 /\ bReachedEnd = FALSE
    /\ material_splits = <<>> /\ entryPos = 0 /\ iterations = 0
    /\ loopExit = "none"

NextStrip == StripReconstruct

SpecStrip == InitStrip /\ [][NextStrip]_vars

\* Python indices i at which a triangle is due: the three vertices of the
\* window are pairwise different.
EmitAt(V) ==
    {i \in 2..(Len(V) - 1) :
        V[i + 1] # V[i] /\ V[i + 1] # V[i - 1] /\ V[i] # V[i - 1]}

Distinct(V) == \A i, j \in 1..Len(V) : i # j => V[i] # V[j]

\* C4: the reconstructed list holds, in ascending order of i from 2 to n-1,
\* one triple for exactly the i whose window v[i], v[i-1], v[i-2] is pairwise
\* different: (i, i-2, i-1) for even i, (i-1, i-2, i) for odd i; fewer than
\* three vertices give no triangle, five pairwise distinct vertices give
\* (2,0,1),(2,1,3),(4,2,3), and [A,A,B] gives none.
C4_StripReconstruction ==
    (pc = "done" /\ ms.HasVertexData) =>
        LET V == ms.Vertices
            T == ms.Triangles
            E == EmitAt(V)
        IN  /\ Len(T) = 3 * Cardinality(E)
            /\ \A i \in E :
                  LET r == Cardinality({j \in E : j < i})
                  IN  <<T[3 * r + 1], T[3 * r + 2], T[3 * r + 3]>> =
                        (IF i % 2 = 0 THEN <<i, i - 2, i - 1>>
                         ELSE <<i - 1, i - 2, i>>)
            /\ Len(V) < 3 => T = <<>>
            /\ (Len(V) = 5 /\ Distinct(V)) => T = <<2, 0, 1, 2, 1, 3, 4, 2, 3>>
            /\ (Len(V) = 3 /\ V[1] = V[2]) => T = <<>>

\* Five pairwise distinct vertices reconstructed into three triangles.
C4_Witness ==
    /\ pc = "done" /\ ms.HasVertexData
    /\ Len(ms.Vertices) = 5 /\ Distinct(ms.Vertices)
    /\ Len(ms.Triangles) = 9

-----------------------------------------------------------------------------
(* parse_native_data_plg                                                   *)
(* binmesh is the header parse_binmesh_plg returned: iMaterialSplitCount   *)
(* and binMeshes.  ms.HasVertexData = FALSE stands for "Vertices": None.   *)

\* uiDataType &= 0xFF00FFFF: the third byte is cleared.
MaskType(t) == t - ((t \div 65536) % 256) * 65536

\* `for vi in range(idxcount)`: three read_i16 and a 2-byte skip per vertex,
\* stopped by the first read that raises.
RECURSIVE DecodeVerts(_, _)
DecodeVerts(p, n) ==
    IF n <= 0 \/ ~Avail(p, 6) THEN <<>>
    ELSE << <<I16At(p), I16At(p + 2), I16At(p + 4)>> >> \o DecodeVerts(p + 8, n - 1)

\* A decode that extends the list of an earlier entry of the split.
DecodedVertsExtending(old, p, n) == old \o DecodeVerts(p, n)

\* ms["Vertices"] = verts: the list decoded at p replaces the one before.
DecodedVerts(old, p, n) == DecodeVerts(p, n)

\* A resynchronisation that never moves the cursor backwards.
ResyncForwardOnly(cursor, blockEnd) == Max(cursor, blockEnd)

\* br.seek(lSectionEnd, 0)
Resync(cursor, blockEnd) == blockEnd

\* A trailer skip made only for a matching type tag.
AfterVertexEntryTrailerIfMatched(p, matched) == IF matched THEN p + 32 ELSE p + 16

\* Cursor after an id 0x30 entry that began at p: the 16 bytes of the entry,
\* (the jump to the data and back), then br.seek(16, 1).
AfterVertexEntry(p, matched) == p + 32

\* `if maybe_struct != STRUCT_ID: raise`
MarkerOk(marker) == marker = STRUCT_ID

\* An empty-structure test against the empty section size of the other chunk.
EmptyStructBySectionSize(structSize) == structSize = EMPTY_SECTION_SIZE

\* `if struct_section_size == 4: return []`
EmptyStruct(structSize) == structSize = EMPTY_STRUCT_SIZE

\* `if uiPlatform != 0x4: raise`
PlatformOk(platform) == platform = PLATFORM_PS2

Raise(e, p) == pc' = "raised" /\ err' = e /\ pos' = p

\* seek(offset) and the header reads up to the platform check.
NativeHeader ==
    /\ pc = "nd_header"
    /\ IF ~Avail(offset, 16)
       THEN Raise("struct.error", AfterRead(offset, 16)) /\ UNCHANGED uiPlatform
       ELSE IF ~MarkerOk(I32At(offset + 12))
       THEN Raise("struct_id", offset + 16) /\ UNCHANGED uiPlatform
       ELSE IF ~Avail(offset + 16, 8)
       THEN Raise("struct.error", AfterRead(offset + 16, 8)) /\ UNCHANGED uiPlatform
       ELSE IF EmptyStruct(I32At(offset + 16))
       THEN pc' = "done" /\ pos' = offset + 24 /\ UNCHANGED <<err, uiPlatform>>
       ELSE IF ~Avail(offset + 24, 4)
       THEN Raise("struct.error", AfterRead(offset + 24, 4)) /\ UNCHANGED uiPlatform
       ELSE /\ uiPlatform' = U32At(offset + 24)
            /\ IF PlatformOk(U32At(offset + 24))
               THEN pc' = "nd_split" /\ pos' = offset + 28 /\ UNCHANGED err
               ELSE Raise("platform", offset + 28)
    /\ UNCHANGED <<buf, offset, locVars, bmVars, hdrVars, split_idx,
                   lSectionStart, lDMASectionEnd, lSectionEnd, lDataPosition,
                   bReachedEnd, ms, material_splits, entryPos, iterations, loopExit>>

\* Top of `for split_idx in range(matcount)`: the block header reads.
SplitHeader ==
    /\ pc = "nd_split"
    /\ split_idx < iMaterialSplitCount
    /\ IF ~Avail(pos, 4)
       THEN /\ Raise("struct.error", AfterRead(pos, 4))
            /\ UNCHANGED <<lSectionStart, lDMASectionEnd, lSectionEnd, bReachedEnd,
                           ms, iterations>>
       ELSE IF ~Avail(pos + 12, 4)
       THEN /\ Raise("struct.error", AfterRead(pos + 12, 4))
            /\ lSectionStart' = pos + 8
            /\ UNCHANGED <<lDMASectionEnd, lSectionEnd, bReachedEnd, ms, iterations>>
       ELSE /\ lSectionStart' = pos + 8
            /\ lDMASectionEnd' = pos + 8 + U32At(pos + 12) * 16
            /\ lSectionEnd' = pos + 8 + U32At(pos)
            /\ pos' = pos + 8
            /\ ms' = [iMaterialIndex |-> binMeshes[split_idx + 1].iMaterialIndex,
                      Vertices |-> <<>>, HasVertexData |-> FALSE,
                      Triangles |-> <<>>]
            /\ bReachedEnd' = FALSE
            /\ iterations' = 0
            /\ pc' = "nd_dma"
            /\ UNCHANGED err
    /\ UNCHANGED <<buf, offset, locVars, bmVars, hdrVars, split_idx, uiPlatform,
                   lDataPosition, material_splits, entryPos, loopExit>>

\* One turn of `while (br.pos() < lDMASectionEnd) and (not bReachedEnd)`.
DmaEntry ==
    /\ pc = "nd_dma"
    /\ pos < lDMASectionEnd /\ ~bReachedEnd
    /\ entryPos' = pos
    /\ IF ~Avail(pos + 3, 1)
       THEN /\ pc' = "nd_finish" /\ pos' = pos + 3 /\ loopExit' = "eof"
            /\ UNCHANGED <<err, ms, lDataPosition, bReachedEnd, iterations>>
       ELSE IF ~Avail(pos + 4, 4)
       THEN /\ Raise("struct.error", AfterRead(pos + 4, 4))
            /\ UNCHANGED <<ms, lDataPosition, bReachedEnd, iterations, loopExit>>
       ELSE IF ~Avail(pos + 12, 4)
       THEN /\ Raise("struct.error", AfterRead(pos + 12, 4))
            /\ UNCHANGED <<ms, lDataPosition, bReachedEnd, iterations, loopExit>>
       ELSE LET bDMAId == U8At(pos + 3)
                dataPos == lSectionStart + U32At(pos + 4) * 16
                matched == MaskType(U32At(pos + 12)) = DMATAG_VERTEX_4_INT16
                idxcount == binMeshes[split_idx + 1].iIndexCount
            IN  /\ iterations' = iterations + 1
                /\ UNCHANGED <<pc, err, loopExit>>
                /\ IF bDMAId = DMA_ID_VERTEX
                   THEN /\ pos' = AfterVertexEntry(pos, matched)
                        /\ UNCHANGED bReachedEnd
                        /\ IF matched
                           THEN /\ ms' = [ms EXCEPT
                                     !.Vertices = DecodedVerts(ms.Vertices, dataPos, idxcount),
                                     !.HasVertexData = TRUE]
                                /\ lDataPosition' = dataPos
                           ELSE UNCHANGED <<ms, lDataPosition>>
                   ELSE IF bDMAId = DMA_ID_END
                   THEN /\ bReachedEnd' = TRUE /\ pos' = pos + 16
                        /\ UNCHANGED <<ms, lDataPosition>>
                   ELSE /\ pos' = pos + 16
                        /\ UNCHANGED <<ms, lDataPosition, bReachedEnd>>
    /\ UNCHANGED <<buf, offset, locVars, bmVars, hdrVars, split_idx, uiPlatform,
                   lSectionStart, lDMASectionEnd, lSectionEnd, material_splits>>

\* The while condition is false: the loop is left.
DmaLoopExit ==
    /\ pc = "nd_dma"
    /\ ~(pos < lDMASectionEnd /\ ~bReachedEnd)
    /\ pc' = "nd_finish"
    /\ loopExit' = IF bReachedEnd THEN "marker" ELSE "dmaEnd"
    /\ UNCHANGED <<buf, pos, offset, err, locVars, bmVars, hdrVars, split_idx,
                   uiPlatform, lSectionStart, lDMASectionEnd, lSectionEnd,
                   lDataPosition, bReachedEnd, ms, material_splits, entryPos,
                   iterations>>

\* After the loop: triangles, material_splits.append(ms), seek to lSectionEnd.
SplitFinish ==
    /\ pc = "nd_finish"
    /\ ms' = Reconstructed(ms)
    /\ material_splits' = Append(material_splits, Reconstructed(ms))
    /\ pos' = Resync(pos, lSectionEnd)
    /\ split_idx' = split_idx + 1
    /\ pc' = "nd_split"
    /\ UNCHANGED <<buf, offset, err, locVars, bmVars, hdrVars, uiPlatform,
                   lSectionStart, lDMASectionEnd, lSectionEnd, lDataPosition,
                   bReachedEnd, entryPos, iterations, loopExit>>

\* The for loop is over: return material_splits.
NativeReturn ==
    /\ pc = "nd_split"
    /\ split_idx >= iMaterialSplitCount
    /\ pc' = "done"
    /\ UNCHANGED <<buf, pos, offset, err, locVars, bmVars, hdrVars, split_idx, ndVars>>

\* Input files: a native-data chunk at offset 0 followed by one block per
\* split, cut to any even length.  A block is its size field, four bytes,
\* then (from lSectionStart on) 16-byte DMA entries, each id 0x30 entry
\* followed by its 16-byte trailer, then the vertex data.  Bytes 4..7 of the
\* first entry are both its word offset and the DMA size field.  A block
\* whose size field is wrong makes the next split read its header inside
\* the entries or the vertex data; the words the decoder skips hold 8 and
\* the coordinates are such that every word it then reads as a size or a
\* word offset stays below 2^27 (all cursor values are TLC integers).
LE16(v) == LET u == (v + 65536) % 65536 IN <<u % 256, u \div 256>>

VertexBytes(v) == LE16(v[1]) \o LE16(v[2]) \o LE16(v[3]) \o Zeros(2)

EntryBytes(id, off, type) == <<0, 0, 0, id>> \o LE32(off) \o LE32(8) \o LE32(type)

TrailerBytes == Zeros(8) \o LE32(8) \o Zeros(4)

\* Entry kinds: V a vertex entry with the supported tag, M one whose tag has
\* the masked byte set, W one whose data starts two vertices later, N an
\* id 0x30 entry with another tag, E the end marker, U an unrecognized id.
IsVertexKind(kind) == kind \in {"V", "M", "W", "N"}

KindId(kind) == IF IsVertexKind(kind) THEN DMA_ID_VERTEX
                ELSE IF kind = "E" THEN DMA_ID_END ELSE 32

KindType(kind) ==
    CASE kind = "V" -> DMATAG_VERTEX_4_INT16
      [] kind = "W" -> DMATAG_VERTEX_4_INT16
      [] kind = "M" -> DMATAG_VERTEX_4_INT16 + 66 * 65536
      [] kind = "N" -> DMATAG_VERTEX_4_INT16 + 1
      [] OTHER -> 0

Slots(kinds) == LET RECURSIVE S(_)
                    S(q) == IF q = <<>> THEN 0
                            ELSE (IF IsVertexKind(Head(q)) THEN 2 ELSE 1) + S(Tail(q))
                IN  S(kinds)

\* The vertex data of block k: four vertices, the last two equal in even blocks.
BlockVertices(k) ==
    IF k % 2 = 1 THEN << <<k, 0, 0>>, <<-1, k, 1>>, <<-2, 0, 2>>, <<3, 3, 0>> >>
    ELSE << <<k, 0, 0>>, <<-1, k, 1>>, <<-2, 5, 2>>, <<-2, 5, 2>> >>

BlockSize(lay, k) ==
    LET exact == 16 * Slots(lay.kinds) + 8 * Len(BlockVertices(k))
    IN  CASE lay.size = "short" -> 8
          [] lay.size = "exact" -> exact
          [] lay.size = "long" -> exact + 16

BlockBytes(lay, k) ==
    LET slots == Slots(lay.kinds)
        entry(j) ==
            LET kind == lay.kinds[j]
                off == IF j = 1 THEN slots + lay.delta
                       ELSE IF kind = "W" THEN slots + 1 ELSE slots
            IN  EntryBytes(KindId(kind), off, KindType(kind)) \o
                (IF IsVertexKind(kind) THEN TrailerBytes ELSE <<>>)
    IN  LE32(BlockSize(lay, k)) \o Zeros(4) \o
        Concat([j \in 1..Len(lay.kinds) |-> entry(j)]) \o
        Concat([j \in 1..Len(BlockVertices(k)) |-> VertexBytes(BlockVertices(k)[j])])

NativeBytes(marker, structSize, platform, lays) ==
    LE32(NATIVE_DATA_PLG_ID) \o LE32(0) \o LE32(0) \o LE32(marker) \o
    LE32(structSize) \o LE32(0) \o LE32(platform) \o
    Concat([k \in 1..Len(lays) |-> BlockBytes(lays[k], k)])

KindSeqs == { <<"V">>, <<"U">>, <<"M", "E">>, <<"N", "V">>, <<"U", "V">>,
              <<"V", "W">>, <<"E", "V">>, <<"V", "N">> }

Layouts ==
    [kinds : KindSeqs, delta : {0}, size : {"short", "exact", "long"}] \cup
    [kinds : KindSeqs, delta : {-1, 1}, size : {"exact"}]

PlainLayout == [kinds |-> <<"V">>, delta |-> 0, size |-> "exact"]

NativeIndexCounts == {-1, 0, MaxVertexCount - 1, MaxVertexCount}

\* The header parse_binmesh_plg returns for these index counts.
HeaderFor(count, ics) ==
    [k \in 1..Max(count, 0) |->
        [iIndexCount |-> ics[k], iMaterialIndex |-> 7 + k,
         HasIndices |-> FALSE, VertexIndices |-> <<>>]]

InitNative ==
    /\ \E count \in SplitCounts :
       \E j \in 1..Max(count, 1), lay \in Layouts, ic \in NativeIndexCounts :
       \E marker \in {STRUCT_ID, 2}, structSize \in {EMPTY_STRUCT_SIZE, 100},
          platform \in {PLATFORM_PS2, 5} :
         LET lays == [k \in 1..Max(count, 0) |-> IF k = j THEN lay ELSE PlainLayout]
             ics == [k \in 1..Max(count, 0) |-> IF k = j THEN ic ELSE MaxVertexCount - 1]
             full == NativeBytes(marker, structSize, platform, lays)
         IN  /\ (marker # STRUCT_ID \/ structSize = EMPTY_STRUCT_SIZE
                   \/ platform # PLATFORM_PS2)
                  => (lay = PlainLayout /\ ic = MaxVertexCount - 1 /\ count <= 1)
             /\ iMaterialSplitCount = count
             /\ binMeshes = HeaderFor(count, ics)
             /\ \E n \in 0..Len(full) : n % 2 = 0 /\ buf = Cut(full, n)
    /\ pos = 0 /\ offset = 0 /\ pc = "nd_header" /\ err = "none" /\ split_idx = 0
    /\ IdleLocator /\ IdleBinMesh /\ IdleNative

NextNative ==
    NativeHeader \/ SplitHeader \/ DmaEntry \/ DmaLoopExit \/ SplitFinish \/ NativeReturn

SpecNative == InitNative /\ [][NextNative]_vars

\* The header fields as they stand in the file.
HdrMarker == I32At(offset + 12)
HdrStructSize == I32At(offset + 16)
HdrPlatform == U32At(offset + 24)

\* C1: once the native-data header has passed both structural checks, no
\* truncation of the buffer (in a block header, a DMA entry header or a
\* vertex block) ends the call in a raised error: a list of splits is
\* returned.
C1_TruncationNeverRaises ==
    (uiPlatform = PLATFORM_PS2 /\ Len(buf) > offset + 28) => pc # "raised"

InRange(m) ==
    /\ Len(m.Triangles) % 3 = 0
    /\ \A t \in 1..Len(m.Triangles) :
          0 <= m.Triangles[t] /\ m.Triangles[t] < Len(m.Vertices)

\* C3: in every split of the list parse_native_data_plg builds, each value of
\* Triangles is an index into that split's decoded vertices and the list
\* length is a multiple of 3, also for a partial vertex list and for several
\* id 0x30 entries in one split.
C3_TriangleIndicesInRange ==
    \A k \in 1..Len(material_splits) : InRange(material_splits[k])

\* A returned split whose vertex list was cut short by the end of the buffer
\* and still gave a triangle over its last vertex.
C3_Witness ==
    /\ pc = "done"
    /\ \E k \in 1..Len(material_splits) :
          /\ material_splits[k].HasVertexData
          /\ Len(material_splits[k].Vertices) = 3
          /\ binMeshes[k].iIndexCount = 4
          /\ material_splits[k].Triangles = <<2, 0, 1>>

\* The vertex read from the file at offset p.
VertexAt(p) == <<I16At(p), I16At(p + 2), I16At(p + 4)>>

C6_ResyncAtBlockEnd ==
    (pc = "nd_split" /\ split_idx > 0) => pos = lSectionEnd

\* The loop of the split before ended at the end of the buffer, past its
\* block end, and the next split is about to read its header at that block end.
C6_Witness ==
    /\ pc = "nd_split" /\ split_idx > 0 /\ split_idx < iMaterialSplitCount
    /\ loopExit = "eof" /\ lSectionEnd < entryPos /\ pos = lSectionEnd

\* The loop ended short of the block end (by the end marker).
C6_WitnessBefore ==
    /\ pc = "nd_split" /\ split_idx > 0 /\ split_idx < iMaterialSplitCount
    /\ loopExit = "marker" /\ entryPos + 16 < lSectionEnd /\ pos = lSectionEnd

\* C9: the structural checks are made in order: a wrong nested marker raises
\* whatever follows; else a nested size of 4 returns no split without the
\* platform being read; else an unsupported platform raises and no split is
\* returned; splits are produced only when all three pass, and then a
\* returned list has one split per header split, in header order, with the
\* header split's materialIndex.
C9_StructuralCheckOrder ==
    /\ (pc # "nd_header" /\ Avail(offset, 16) /\ HdrMarker # STRUCT_ID) =>
          (pc = "raised" /\ err = "struct_id" /\ material_splits = <<>>)
    /\ (pc # "nd_header" /\ Avail(offset, 24) /\ HdrMarker = STRUCT_ID
          /\ HdrStructSize = EMPTY_STRUCT_SIZE) =>
          (pc = "done" /\ material_splits = <<>> /\ uiPlatform = -1)
    /\ (pc # "nd_header" /\ Avail(offset, 28) /\ HdrMarker = STRUCT_ID
          /\ HdrStructSize # EMPTY_STRUCT_SIZE /\ HdrPlatform # PLATFORM_PS2) =>
          (pc = "raised" /\ err = "platform" /\ material_splits = <<>>)
    /\ material_splits # <<>> =>
          (HdrMarker = STRUCT_ID /\ HdrStructSize # EMPTY_STRUCT_SIZE
             /\ HdrPlatform = PLATFORM_PS2)
    /\ \A k \in 1..Len(material_splits) :
          material_splits[k].iMaterialIndex = binMeshes[k].iMaterialIndex
    /\ (pc = "done" /\ uiPlatform = PLATFORM_PS2) =>
          Len(material_splits) = Len(binMeshes)

\* An empty structure with an unsupported platform id returned no split.
C9_Witness ==
    /\ pc = "done" /\ Avail(offset, 28) /\ HdrMarker = STRUCT_ID
    /\ HdrStructSize = EMPTY_STRUCT_SIZE /\ HdrPlatform # PLATFORM_PS2
    /\ material_splits = <<>> /\ iMaterialSplitCount > 0

\* Two splits returned in header order.
C9_WitnessSplits ==
    /\ pc = "done" /\ Len(material_splits) = 2
    /\ material_splits[1].iMaterialIndex # material_splits[2].iMaterialIndex

\* C10: every completed turn of the DMA loop moves the cursor forward, by 32
\* for an id 0x30 entry (matching tag or not) and by 16 for any other id, so
\* after k turns the cursor is at least 16k past the block start and the loop
\* makes at most dmaByteLength / 16 turns.
C10_DmaLoopProgress ==
    pc \in {"nd_dma", "nd_finish"} =>
        /\ 16 * iterations <= Max(lDMASectionEnd - lSectionStart, 0)
        /\ pos >= lSectionStart + 16 * iterations
        /\ (pc = "nd_dma" /\ iterations > 0) =>
              /\ pos > entryPos
              /\ pos - entryPos =
                   (IF U8At(entryPos + 3) = DMA_ID_VERTEX THEN 32 ELSE 16)

\* A second turn that met an id 0x30 entry with an unsupported tag and moved
\* the cursor 32 bytes.
C10_Witness ==
    /\ pc = "nd_dma" /\ iterations = 2
    /\ U8At(entryPos + 3) = DMA_ID_VERTEX
    /\ MaskType(U32At(entryPos + 12)) # DMATAG_VERTEX_4_INT16
    /\ pos = entryPos + 32

\* A turn that met an unrecognized id and moved the cursor 16 bytes.
C10_WitnessUnknown ==
    /\ pc = "nd_dma" /\ iterations = 1
    /\ U8At(entryPos + 3) \notin {DMA_ID_VERTEX, DMA_ID_END}
    /\ pos = entryPos + 16 /\ pos < lDMASectionEnd

=============================================================================
